---- MODULE Spec2Model ----
(***************************************************************************)
(* Dataset synchronization of the RDW open-data viewer: the download       *)
(* manager (downloadDataset, checkRemoteHeaders, loadMetadata,             *)
(* saveMetadata), the POST /api/download pass that streams its events, and *)
(* the metadata bootstrap script (createMetadata); the parallel downloader *)
(* (downloadInParallel and its downloadDataset with retries); the view      *)
(* server (createView, createUnifiedView, POST /init-unified).               *)
(***************************************************************************)
EXTENDS Integers, Sequences, FiniteSets, TLC

(* ------------------------------ bounds --------------------------------- *)
\* number of registry datasets in the model (the registry lists 7)
NumDatasets == 2
\* number of chunks in which the body of a payload arrives
MaxChunks == 1
\* number of synchronization passes started in one behaviour
MaxPasses == 2
\* number of runs of the metadata bootstrap script in one behaviour
MaxBootstraps == 1
\* number of times the remote source publishes a new version
MaxRemoteChanges == 1
\* number of datasets the parallel downloader is given
NumPar == 4
\* size of the pool of the parallel downloader (PARALLEL_DOWNLOADS is 3)
MaxParallel == 2
\* number of network and file errors in one run of the parallel downloader
MaxNetErrors == 4
\* runs of the parallel downloader after the first
MaxReruns == 1
\* dataset files the view server knows, requests it receives, and changes
\* of its data directory
NumViewFiles == 2
MaxRequests == 2
MaxFileChanges == 3
\* length of a filter value, filter rules of a pivot request, and rows of the
\* joined dataset for one license plate
MaxValueLen == 2
MaxRules == 1
MaxSubRecords == 3
MaxLimitLen == 2
\* synchronization passes running at the same time
NumConcurrent == 2

DATASETS == 1..NumDatasets

(* --------------------------- header values ----------------------------- *)
\* a header the response does not carry reads as undefined
Undef == "undefined"
Hdr(lm, et) == [lastModified |-> lm, etag |-> et]
\* the headers the source can send with a payload: two versions, and the
\* first version without its Last-Modified or without its ETag
Headers == {Hdr("t1", "a"), Hdr("t2", "b"), Hdr(Undef, "a"), Hdr("t1", Undef)}
\* the headers of a response that is not the payload (an error page)
NoHeaders == Hdr(Undef, Undef)

\* getTime() of an Invalid Date
NaN == -1
\* new Date(s): the instant a Last-Modified string denotes, NaN when it is
\* undefined, empty or not a date
NewDate(s) == IF s = "t1" THEN 1 ELSE IF s = "t2" THEN 2 ELSE NaN
\* a <= b on Dates: false as soon as one side is an Invalid Date
DateLeq(a, b) == a # NaN /\ b # NaN /\ a <= b

\* value || ''
OrEmpty(v) == IF v = Undef THEN "" ELSE v

(* --------------------------- metadata store ---------------------------- *)
\* no key for the dataset in the metadata object
NoEntry == [none |-> TRUE]
\* entry.key, undefined when the key is missing
Field(e, k) == IF k \in DOMAIN e THEN e[k] ELSE Undef
\* JSON.stringify of one entry: keys whose value is undefined are dropped
StringifyEntry(e) ==
  IF e = NoEntry THEN NoEntry
  ELSE [k \in {x \in DOMAIN e : x = "size" \/ e[x] # Undef} |-> e[k]]
\* JSON.stringify(metadata) followed by JSON.parse of the file
Stringify(md) == [d \in DATASETS |-> StringifyEntry(md[d])]

VARIABLES
  remote,        \* remote[d]: headers the source sends with the payload of d
  dirExists,     \* DATA_DIR exists
  file,          \* file[d]: what is at the canonical path of dataset d
  metaFile,      \* parsed content of .download-metadata.json
  metadata,      \* the metadata object of the running pass
  pc,            \* where the running pass is suspended
  cur,           \* dataset the pass is working on (0: none)
  resp,          \* lastModified/etag captured by handleResponse
  downloadedBytes,
  events,        \* what the pass has enqueued on its event stream
  tally,         \* completed / skipped / failed counters of the pass
  outcome,       \* outcome[d]: what downloadDataset returned in this pass
  check,         \* check[d]: how the staleness check of this pass went
  requested,     \* datasets a payload GET was issued for in this pass
  passes,        \* passes started so far
  bootstraps,    \* bootstrap runs so far
  changes,       \* remote changes so far
  everSucceeded, \* datasets a download has completed for at some earlier point
  quiet,         \* the last pass has closed and nothing ran since
  prevOk         \* the previous pass ended with every dataset completed or
                 \* skipped, and nothing ran between it and this one

\* the parallel downloader
VARIABLES
  ppc,           \* where downloadInParallel is: "init", "awaiting", "returned"
  pqueue,        \* queue: datasets not yet started
  inProgress,    \* inProgress: the promises, each named by its dataset
  results,       \* results: what the loop has pushed
  pstate,        \* pstate[d]: where downloadDataset(d) is
  attemptsLeft,  \* attemptsLeft[d] of the running attemptDownload
  attempts,      \* attempts[d]: calls of attemptDownload made for d
  perr,          \* perr[d]: the kind of the last error a handler of d saw
  netErrors,     \* network and file errors so far
  pfile,         \* pfile[d]: a file is at the output path of d
  reruns         \* runs of the script after the first

parVars == <<ppc, pqueue, inProgress, results, pstate, attemptsLeft, attempts,
             perr, netErrors, pfile, reruns>>

\* the view server
VARIABLES
  csv,           \* the datasets whose CSV file is in the data directory
  createdViews,  \* createdViews: the names of the views created so far
  unified,       \* the datasets view_unified joins in the engine, <<>> if none
  rpc,           \* rpc[r]: where request r is
  ridx,          \* ridx[r]: position in DATASET_FILES of the view being created
  avail,         \* avail[r]: availableDatasets of the call made by r
  call,          \* call[r]: how createUnifiedView ended for r
  response,      \* response[r]: what r was answered
  redefined,     \* redefined[r]: the call of r has defined view_unified
  fileChanges,   \* files that appeared in or left the data directory
  rkind,         \* rkind[r]: the endpoint r was sent to
  queried,       \* queried[r]: r has run its statement on view_unified
  disturbed,     \* disturbed[r]: during the call of r a file appeared or
                 \* left
  dropped        \* dropped[r]: the datasets whose createView failed in the
                 \* call of r

viewVars == <<csv, createdViews, unified, rpc, ridx, avail, call, response,
              redefined, fileChanges, rkind, queried, disturbed, dropped>>

\* POST /pivot-advanced on a created view_unified
VARIABLES
  qpc,           \* where the request is: "idle", "running", "answered",
                 \* "unanswered"
  body,          \* req.body: rows, columns, values, filters
  sql,           \* the statement handed to connection.all
  answer,        \* the response: status, data, error
  engineErr,     \* the error the engine gave to the callback, "" if none
  subRecords,    \* subRecords[k]: rows of the joined dataset for plate k
  request,       \* the GET request received: its endpoint and its parameter
  limitClause    \* the LIMIT clause of the per-dataset statement: <<>> when
                 \* there is none, <<n>> for LIMIT n

pivotVars == <<qpc, body, sql, answer, engineErr, subRecords, request,
               limitClause>>

\* two synchronization passes running in one server process
VARIABLES
  tpc,           \* tpc[p]: where pass p is suspended
  tcur,          \* tcur[p]: dataset pass p is working on (0: none)
  tmeta,         \* tmeta[p]: the metadata object pass p loaded at its start
  tstore,        \* parsed content of .download-metadata.json
  tfile,         \* tfile[d]: something is at the canonical path of d
  writers        \* writers[d]: passes whose running download of d has a
                 \* write stream open on the canonical path of d

twoVars == <<tpc, tcur, tmeta, tstore, tfile, writers>>

\* what the synchronization pass and the bootstrap script never touch
outside == <<parVars, viewVars, pivotVars, twoVars>>

vars == <<remote, dirExists, file, metaFile, metadata, pc, cur, resp,
          downloadedBytes, events, tally, outcome, check, requested, passes,
          bootstraps, changes, everSucceeded, quiet, prevOk, outside>>

\* the datasets given to the parallel downloader
PAR == 1..NumPar

\* the parallel downloader has not been started
ParIdle ==
  /\ ppc = "init"
  /\ pqueue = <<>>
  /\ inProgress = <<>>
  /\ results = <<>>
  /\ pstate = [d \in PAR |-> "queued"]
  /\ attemptsLeft = [d \in PAR |-> 0]
  /\ attempts = [d \in PAR |-> 0]
  /\ perr = [d \in PAR |-> ""]
  /\ netErrors = 0
  /\ pfile = [d \in PAR |-> FALSE]
  /\ reruns = 0

\* the license plates of the main dataset
PLATES == {<<"K", "1">>, <<"K", "2">>, <<"K", "3">>, <<"K", "4">>, <<"K", "5">>}

NoBody == [rows |-> <<>>, columns |-> <<>>, values |-> <<>>, filters |-> <<>>]
NoQuery == [dims |-> <<>>, aggs |-> <<>>, where |-> <<>>]
NoAnswer == [status |-> "none", data |-> {}, error |-> ""]

NoRequest == [kind |-> "none", param |-> <<>>]

\* no pivot request has arrived and the joined dataset is empty
PivotIdle ==
  /\ qpc = "idle"
  /\ body = NoBody
  /\ sql = NoQuery
  /\ answer = NoAnswer
  /\ engineErr = ""
  /\ subRecords = [k \in PLATES |-> 0]
  /\ request = NoRequest
  /\ limitClause = <<>>

\* the passes that can run at the same time
PASSES == 1..NumConcurrent

\* no pass has been started: the store and the files are those the earlier
\* downloads left
TwoIdle ==
  /\ tpc = [p \in PASSES |-> "idle"]
  /\ tcur = [p \in PASSES |-> 0]
  /\ tmeta = [p \in PASSES |-> [d \in DATASETS |-> NoEntry]]
  /\ tstore = metaFile
  /\ tfile = [d \in DATASETS |-> d \in everSucceeded]
  /\ writers = [d \in DATASETS |-> {}]

\* the requests the view server receives
REQS == 1..MaxRequests

\* the view server has started and has received nothing
ViewIdle ==
  /\ csv = {}
  /\ createdViews = {}
  /\ unified = <<>>
  /\ rpc = [r \in REQS |-> "idle"]
  /\ ridx = [r \in REQS |-> 0]
  /\ avail = [r \in REQS |-> <<>>]
  /\ call = [r \in REQS |-> "none"]
  /\ response = [r \in REQS |-> "none"]
  /\ redefined = [r \in REQS |-> FALSE]
  /\ fileChanges = 0
  /\ rkind = [r \in REQS |-> "none"]
  /\ queried = [r \in REQS |-> FALSE]
  /\ disturbed = [r \in REQS |-> FALSE]
  /\ dropped = [r \in REQS |-> {}]

(* ------------------------------- files --------------------------------- *)
NoFile == [exists |-> FALSE]
\* a file of n chunks; content tells what the bytes are: "truncated" (the
\* stream that wrote it has not finished), "payload" (the whole body of a 200
\* response), "errorPage" (the whole body of another response); from holds
\* the headers of the response the bytes came with
File(n, c, h) == [exists |-> TRUE, size |-> n, content |-> c, from |-> h]
\* fs.createWriteStream(outputPath): creates the file or truncates it
CreateWriteStream(fl, k) == [fl EXCEPT ![k] = File(0, "truncated", NoHeaders)]
\* fs.existsSync(outputPath)
ExistsSync(fl, k) == fl[k].exists

(* ------------------------------- events -------------------------------- *)
Ev(t, d, s) == [type |-> t, dataset |-> d, status |-> s]
CompleteEv(t) == [type |-> "complete", dataset |-> 0, status |-> "",
                  completed |-> t.completed, skipped |-> t.skipped,
                  failed |-> t.failed]
ZeroTally == [completed |-> 0, skipped |-> 0, failed |-> 0]

NoResp == [lastModified |-> Undef, etag |-> Undef, status |-> 0]

(* --------------------- POST /api/download: the loop -------------------- *)
\* downloadDataset from "Download the file" to its first suspension: the
\* write stream is created and the GET is issued
StartFetch(k, ev, fl, rq, t) ==
  [events |-> ev, file |-> CreateWriteStream(fl, k), requested |-> rq \cup {k},
   tally |-> t, pc |-> "requesting", cur |-> k]

\* a faulty loop body: the probe is made whether or not the file exists
EnterAlwaysProbes(k, ev, fl, rq, t) ==
  [events |-> ev \o <<Ev("dataset_start", k, ""), Ev("progress", k, "checking")>>,
   file |-> fl, requested |-> rq, tally |-> t, pc |-> "probing", cur |-> k]

\* the loop body for dataset k up to the first suspension of downloadDataset:
\* dataset_start, the 'checking' progress, then the probe or the fetch
Enter(k, ev, fl, rq, t) ==
  LET ev1 == ev \o <<Ev("dataset_start", k, ""), Ev("progress", k, "checking")>>
  IN IF ExistsSync(fl, k)
     THEN [events |-> ev1, file |-> fl, requested |-> rq, tally |-> t,
           pc |-> "probing", cur |-> k]
     ELSE StartFetch(k, ev1, fl, rq, t)

\* a faulty counter: a skipped dataset is counted as completed
CountSkippedAsCompleted(t, res) ==
  IF res = "skipped" THEN [t EXCEPT !["completed"] = @ + 1]
  ELSE [t EXCEPT ![res] = @ + 1]

\* the counter the loop increments for a result
Count(t, res) == [t EXCEPT ![res] = @ + 1]

\* the loop after downloadDataset(k) returned res: the counter, the
\* dataset_complete event, then the next dataset or the final 'complete'
Continue(k, res, ev, fl, rq, t) ==
  LET t1 == Count(t, res)
      ev1 == Append(ev, Ev("dataset_complete", k, res))
  IN IF k = NumDatasets
     THEN [events |-> Append(ev1, CompleteEv(t1)), file |-> fl,
           requested |-> rq, tally |-> t1, pc |-> "closed", cur |-> 0]
     ELSE Enter(k + 1, ev1, fl, rq, t1)

\* the pass moves to the state nx computed by Enter / Continue / StartFetch
Goto(nx) ==
  /\ events' = nx.events
  /\ file' = nx.file
  /\ requested' = nx.requested
  /\ tally' = nx.tally
  /\ pc' = nx.pc
  /\ cur' = nx.cur
  /\ quiet' = (nx.pc = "closed")

\* a faulty entry: the ETag of the response is not recorded
NewEntryWithoutEtag(r, n) ==
  [lastModified |-> r.lastModified, etag |-> Undef, size |-> n]

\* the entry file.on('finish') stores
NewEntry(r, n) == [lastModified |-> r.lastModified, etag |-> r.etag, size |-> n]

\* the process starts on a disk where each dataset was either never fetched
\* or fetched, in its current version, by an earlier pass; the source starts
\* with the first version of every dataset
Init ==
  /\ remote = [d \in DATASETS |-> Hdr("t1", "a")]
  /\ everSucceeded \in SUBSET DATASETS
  /\ dirExists \in {b \in BOOLEAN : everSucceeded # {} => b}
  /\ file = [d \in DATASETS |->
               IF d \in everSucceeded
               THEN File(MaxChunks, "payload", remote[d]) ELSE NoFile]
  /\ metaFile = [d \in DATASETS |->
                   IF d \in everSucceeded
                   THEN StringifyEntry(NewEntry(remote[d], MaxChunks))
                   ELSE NoEntry]
  /\ metadata = [d \in DATASETS |-> NoEntry]
  /\ pc = "idle"
  /\ cur = 0
  /\ resp = NoResp
  /\ downloadedBytes = 0
  /\ events = <<>>
  /\ tally = ZeroTally
  /\ outcome = [d \in DATASETS |-> "none"]
  /\ check = [d \in DATASETS |-> "none"]
  /\ requested = {}
  /\ passes = 0
  /\ bootstraps = 0
  /\ changes = 0
  /\ quiet = FALSE
  /\ prevOk = FALSE
  /\ ParIdle
  /\ ViewIdle
  /\ PivotIdle
  /\ TwoIdle

\* every dataset of the pass that just closed ended completed or skipped
AllOk == \A d \in DATASETS : outcome[d] \in {"completed", "skipped"}

\* POST: loadDownloadMetadata, the 'start' event and the first dataset up to
\* the first suspension; mkdirSync of a missing DATA_DIR succeeds or throws,
\* and a throw ends the stream through the catch block
StartPass ==
  /\ UNCHANGED outside
  /\ pc \in {"idle", "closed"}
  /\ passes < MaxPasses
  /\ passes' = passes + 1
  /\ metadata' = metaFile
  /\ resp' = NoResp
  /\ downloadedBytes' = 0
  /\ outcome' = [d \in DATASETS |-> "none"]
  /\ check' = [d \in DATASETS |-> "none"]
  /\ prevOk' = (pc = "closed" /\ quiet /\ AllOk)
  /\ \E mkdirOk \in BOOLEAN :
       IF dirExists \/ mkdirOk
       THEN /\ dirExists' = TRUE
            /\ Goto(Enter(1, <<Ev("start", 0, "")>>, file, {}, ZeroTally))
       ELSE /\ dirExists' = FALSE
            /\ Goto([events |-> <<Ev("start", 0, ""), Ev("dataset_start", 1, ""),
                                  Ev("error", 0, "")>>,
                     file |-> file, requested |-> {},
                     tally |-> ZeroTally, pc |-> "closed", cur |-> 0])
  /\ UNCHANGED <<remote, metaFile, bootstraps, changes, everSucceeded>>

(* ------------------- downloadDataset: the staleness check -------------- *)
\* what checkRemoteHeaders resolves with for a response carrying h
Resolved(h) == Hdr(OrEmpty(h.lastModified), OrEmpty(h.etag))

\* a faulty comparison: the remote date must be strictly older
UpToDateStrict(remoteHeaders, localMeta) ==
  /\ NewDate(remoteHeaders.lastModified) # NaN
  /\ NewDate(Field(localMeta, "lastModified")) # NaN
  /\ NewDate(remoteHeaders.lastModified) < NewDate(Field(localMeta, "lastModified"))
  /\ remoteHeaders.etag = Field(localMeta, "etag")

\* remoteModified <= localModified && remoteHeaders.etag === localMetadata.etag
UpToDate(remoteHeaders, localMeta) ==
  /\ DateLeq(NewDate(remoteHeaders.lastModified),
             NewDate(Field(localMeta, "lastModified")))
  /\ remoteHeaders.etag = Field(localMeta, "etag")

\* how the headers h of the probed response relate to the stored entry e:
\* "same" when Last-Modified is a date, the ETag is there and both are the
\* strings the entry holds; "bare" when they agree header by header but one
\* of them is absent; "differs" otherwise
Relation(h, e) ==
  IF e = NoEntry THEN "noentry"
  ELSE IF /\ OrEmpty(h.lastModified) = OrEmpty(Field(e, "lastModified"))
          /\ OrEmpty(h.etag) = OrEmpty(Field(e, "etag"))
       THEN IF NewDate(h.lastModified) # NaN /\ OrEmpty(h.etag) # ""
            THEN "same" ELSE "bare"
       ELSE "differs"

\* a faulty return: the metadata file is rewritten empty
PersistedNothing(res, mf) == [d \in DATASETS |-> NoEntry]

\* the metadata file after downloadDataset returned skipped or failed:
\* saveMetadata is called on neither path
Persisted(res, mf) == mf

\* downloadDataset after checkRemoteHeaders resolved for a response with
\* headers h: 'skipped' and return, or fall through to the fetch
AfterProbe(h) ==
  /\ check' = [check EXCEPT ![cur] = Relation(h, metadata[cur])]
  /\ IF metadata[cur] # NoEntry /\ UpToDate(Resolved(h), metadata[cur])
     THEN /\ outcome' = [outcome EXCEPT ![cur] = "skipped"]
          /\ metaFile' = Persisted("skipped", metaFile)
          /\ Goto(Continue(cur, "skipped",
                           Append(events, Ev("progress", cur, "skipped")),
                           file, requested, tally))
     ELSE /\ outcome' = outcome
          /\ metaFile' = metaFile
          /\ Goto(StartFetch(cur, events, file, requested, tally))
  /\ UNCHANGED <<remote, dirExists, metadata, resp, downloadedBytes,
                 passes, bootstraps, changes, everSucceeded, prevOk>>

\* downloadDataset after checkRemoteHeaders rejected: the catch block warns
\* and the fetch follows
AfterProbeRejected ==
  /\ check' = [check EXCEPT ![cur] = "failed"]
  /\ Goto(StartFetch(cur, events, file, requested, tally))
  /\ UNCHANGED <<remote, dirExists, metaFile, metadata, resp, downloadedBytes,
                 outcome, passes, bootstraps, changes, everSucceeded, prevOk>>

\* the response to the HEAD request: a redirect with a location (the second
\* HEAD is issued), a redirect without one (reject), or any other response,
\* whose headers are taken whatever its status
ProbeResponse ==
  /\ UNCHANGED outside
  /\ pc = "probing"
  /\ \/ /\ pc' = "probingRedirect"
        /\ UNCHANGED <<remote, dirExists, file, metaFile, metadata, cur, resp,
                       downloadedBytes, events, tally, outcome, check,
                       requested, passes, bootstraps, changes, everSucceeded,
                       quiet, prevOk>>
     \/ AfterProbeRejected
     \/ \E h \in {remote[cur], NoHeaders} : AfterProbe(h)

\* the response to the HEAD request sent to the redirect location
ProbeRedirectResponse ==
  /\ UNCHANGED outside
  /\ pc = "probingRedirect"
  /\ \E h \in {remote[cur], NoHeaders} : AfterProbe(h)

\* 'error' on either HEAD request
ProbeError ==
  /\ UNCHANGED outside
  /\ pc \in {"probing", "probingRedirect"}
  /\ AfterProbeRejected

(* ----------------------- downloadDataset: the fetch -------------------- *)
\* resolve({ success: false, error }) and the loop's continuation
Fail(fl, ev) ==
  /\ outcome' = [outcome EXCEPT ![cur] = "failed"]
  /\ resp' = NoResp
  /\ downloadedBytes' = 0
  /\ metaFile' = Persisted("failed", metaFile)
  /\ Goto(Continue(cur, "failed", ev, fl, requested, tally))
  /\ UNCHANGED <<remote, dirExists, metadata, check, passes,
                 bootstraps, changes, everSucceeded, prevOk>>

\* what handleResponse keeps of a response with headers h
Captured(h, status) ==
  [lastModified |-> h.lastModified, etag |-> h.etag, status |-> status]

\* handleResponse(response): the headers are captured, 'downloading' is
\* reported and the body of this response is piped to the file
HandleResponse(h, status) ==
  /\ resp' = Captured(h, status)
  /\ downloadedBytes' = 0
  /\ events' = Append(events, Ev("progress", cur, "downloading"))
  /\ file' = [file EXCEPT ![cur] = File(0, "truncated", h)]
  /\ pc' = "streaming"
  /\ UNCHANGED <<remote, dirExists, metaFile, metadata, cur, tally,
                 outcome, check, requested, passes, bootstraps, changes,
                 everSucceeded, quiet, prevOk>>

\* the response to the first GET
GetResponse ==
  /\ UNCHANGED outside
  /\ pc = "requesting"
  /\ \/ HandleResponse(remote[cur], 200)
     \/ \* 301/302 with a location: the second GET is issued
        /\ pc' = "redirecting"
        /\ UNCHANGED <<remote, dirExists, file, metaFile, metadata, cur, resp,
                       downloadedBytes, events, tally, outcome, check,
                       requested, passes, bootstraps, changes, everSucceeded,
                       quiet, prevOk>>
     \/ \* 301/302 without a location, or a status that is none of 200/301/302
        Fail(file, events)

\* 'error' on the first GET
GetError ==
  /\ UNCHANGED outside
  /\ pc = "requesting"
  /\ Fail(file, events)

\* the response to the GET sent to the redirect location: handleResponse is
\* the callback, whatever the status
RedirectResponse ==
  /\ UNCHANGED outside
  /\ pc = "redirecting"
  /\ \/ HandleResponse(remote[cur], 200)
     \/ HandleResponse(NoHeaders, 404)

\* 'error' on the redirected GET before its response
RedirectError ==
  /\ UNCHANGED outside
  /\ pc = "redirecting"
  /\ Fail(file, events)

\* 'data' on the response: the counter, a 'downloading' progress, and the
\* chunk goes to the file through the pipe
Data ==
  /\ UNCHANGED outside
  /\ pc = "streaming"
  /\ downloadedBytes < MaxChunks
  /\ downloadedBytes' = downloadedBytes + 1
  /\ events' = Append(events, Ev("progress", cur, "downloading"))
  /\ file' = [file EXCEPT ![cur] = File(downloadedBytes + 1, "truncated", @.from)]
  /\ UNCHANGED <<remote, dirExists, metaFile, metadata, pc, cur, resp, tally,
                 outcome, check, requested, passes, bootstraps, changes,
                 everSucceeded, quiet, prevOk>>

\* a faulty save: an empty object is written
SaveEmptyObject(md) == [d \in DATASETS |-> NoEntry]

\* saveMetadata(metadata): the whole object is written to the file
SaveMetadata(md) == Stringify(md)

\* the response ended after its last chunk and the file stream finished: the
\* entry is stored and saved, 'completed' is reported, success is returned
\* and the loop goes on
Finish ==
  /\ UNCHANGED outside
  /\ pc = "streaming"
  /\ downloadedBytes = MaxChunks
  /\ LET md == [metadata EXCEPT ![cur] = NewEntry(resp, downloadedBytes)]
         fl == [file EXCEPT ![cur] =
                  File(file[cur].size,
                       IF resp.status = 200 THEN "payload" ELSE "errorPage",
                       file[cur].from)]
     IN /\ metadata' = md
        /\ metaFile' = SaveMetadata(md)
        /\ outcome' = [outcome EXCEPT ![cur] = "completed"]
        /\ Goto(Continue(cur, "completed",
                         Append(events, Ev("progress", cur, "completed")),
                         fl, requested, tally))
        /\ everSucceeded' = everSucceeded \cup {cur}
  /\ resp' = NoResp
  /\ downloadedBytes' = 0
  /\ UNCHANGED <<remote, dirExists, check, passes, bootstraps, changes, prevOk>>

\* 'error' on the file stream while the body is piped: the file is unlinked,
\* 'failed' is reported and failure is returned
FileError ==
  /\ UNCHANGED outside
  /\ pc = "streaming"
  /\ Fail([file EXCEPT ![cur] = NoFile],
          Append(events, Ev("progress", cur, "failed")))

\* the connection breaks in the middle of the body and the request emits
\* 'error': failure is returned, the file stays as it is
StreamError ==
  /\ UNCHANGED outside
  /\ pc = "streaming"
  /\ Fail(file, events)

\* the connection is closed in the middle of the body and only the response
\* is aborted: it never ends, the file stream never finishes, no handler runs
StreamAborted ==
  /\ UNCHANGED outside
  /\ pc = "streaming"
  /\ pc' = "stalled"
  /\ UNCHANGED <<remote, dirExists, file, metaFile, metadata, cur, resp,
                 downloadedBytes, events, tally, outcome, check, requested,
                 passes, bootstraps, changes, everSucceeded, quiet, prevOk>>

\* the process is stopped while a pass is running: what is on disk stays
Interrupt ==
  /\ UNCHANGED outside
  /\ pc \notin {"idle", "closed"}
  /\ pc' = "idle"
  /\ cur' = 0
  /\ metadata' = [d \in DATASETS |-> NoEntry]
  /\ resp' = NoResp
  /\ downloadedBytes' = 0
  /\ events' = <<>>
  /\ tally' = ZeroTally
  /\ outcome' = [d \in DATASETS |-> "none"]
  /\ check' = [d \in DATASETS |-> "none"]
  /\ requested' = {}
  /\ prevOk' = FALSE
  /\ UNCHANGED <<remote, dirExists, file, metaFile, passes, bootstraps,
                 changes, everSucceeded, quiet>>

(* ------------------- the metadata bootstrap script --------------------- *)
\* getRemoteHeaders of the bootstrap script for a response carrying h
BootstrapHeaders(h) == Hdr(OrEmpty(h.lastModified), OrEmpty(h.etag))

\* createMetadata: starting from an empty object, one entry for every
\* dataset whose file exists and whose probe answered; the result replaces
\* the metadata file
CreateMetadata ==
  /\ UNCHANGED outside
  /\ pc \in {"idle", "closed"}
  /\ dirExists
  /\ bootstraps < MaxBootstraps
  /\ bootstraps' = bootstraps + 1
  /\ \E failing \in SUBSET DATASETS :
       metaFile' = SaveMetadata(
                     [d \in DATASETS |->
                        IF ~ExistsSync(file, d) \/ d \in failing
                        THEN NoEntry
                        ELSE NewEntry(BootstrapHeaders(remote[d]), file[d].size)])
  /\ quiet' = FALSE
  /\ UNCHANGED <<remote, dirExists, file, metadata, pc, cur, resp,
                 downloadedBytes, events, tally, outcome, check, requested,
                 passes, changes, everSucceeded, prevOk>>

(* --------------------------- the remote source ------------------------- *)
\* the source publishes a new version of dataset d
RemoteChange ==
  /\ UNCHANGED outside
  /\ changes < MaxRemoteChanges
  /\ changes' = changes + 1
  /\ \E d \in DATASETS : \E h \in Headers \ {remote[d]} :
       remote' = [remote EXCEPT ![d] = h]
  /\ UNCHANGED <<dirExists, file, metaFile, metadata, pc, cur, resp,
                 downloadedBytes, events, tally, outcome, check, requested,
                 passes, bootstraps, everSucceeded, quiet, prevOk>>

Next ==
  \/ StartPass
  \/ ProbeResponse
  \/ ProbeRedirectResponse
  \/ ProbeError
  \/ GetResponse
  \/ GetError
  \/ RedirectResponse
  \/ RedirectError
  \/ Data
  \/ Finish
  \/ FileError
  \/ StreamError
  \/ StreamAborted
  \/ Interrupt
  \/ CreateMetadata
  \/ RemoteChange

Spec == Init /\ [][Next]_vars

\* the steps of a running pass: each is the callback of a network or file
\* event, which the event loop runs once the event has happened
PassStep ==
  \/ ProbeResponse
  \/ ProbeRedirectResponse
  \/ ProbeError
  \/ GetResponse
  \/ GetError
  \/ RedirectResponse
  \/ RedirectError
  \/ Data
  \/ Finish
  \/ FileError
  \/ StreamError
  \/ StreamAborted

PassNext == StartPass \/ PassStep \/ Interrupt

\* passes alone, every pending request eventually answered, failed or broken
LiveSpec == Init /\ [][PassNext]_vars /\ WF_vars(PassStep)

(* ======================= the parallel downloader ======================= *)
\* retries = 3, the default of downloadDataset(dataset, retries)
Retries == 3

\* what the parallel downloader never touches
manager == <<remote, dirExists, file, metaFile, metadata, pc, cur, resp,
             downloadedBytes, events, tally, outcome, check, requested,
             passes, bootstraps, changes, everSucceeded, quiet, prevOk>>

\* downloadDataset(d) has been called and its promise is not settled
Running(st) == st \in {"requesting", "redirecting", "streaming", "waiting",
                       "stalled"}
Settled(st) == st \in {"resolved", "rejected"}

\* the element the loop pushes for the promise of dataset d
Result(d, st) == [dataset |-> d, success |-> (st = "resolved")]

\* inProgress.indexOf(Promise.resolve(completed)): the argument is a promise
\* made on the spot, which is no element of the array
IndexOf(ip, d) == -1

\* inProgress.splice(index, 1) for the index found; a negative index counts
\* from the end of the array
Splice(ip, index) ==
  LET at == IF index < 0 THEN Len(ip) + 1 + index ELSE index + 1
  IN [i \in 1..(Len(ip) - 1) |-> IF i < at THEN ip[i] ELSE ip[i + 1]]

\* the promise Promise.race settles with: the first settled one of the array
Winner(ip, st) ==
  LET done == {i \in 1..Len(ip) : Settled(st[ip[i]])}
  IN ip[CHOOSE i \in done : \A j \in done : i <= j]

\* the while loop of downloadInParallel from its current point to its next
\* suspension: the pool is filled, and as long as the race is won by an
\* already settled promise the loop goes round; started holds the datasets
\* downloadDataset was called for on the way
RECURSIVE RunLoop(_, _, _, _, _)
RunLoop(q, ip, rs, started, st) ==
  IF Len(ip) < MaxParallel /\ Len(q) > 0
  THEN RunLoop(Tail(q), Append(ip, Head(q)), rs, started \cup {Head(q)}, st)
  ELSE IF Len(ip) = 0
  THEN [ppc |-> "returned", queue |-> q, inProgress |-> ip, results |-> rs,
        started |-> started]
  ELSE IF \A i \in 1..Len(ip) : ~Settled(st[ip[i]])
  THEN [ppc |-> "awaiting", queue |-> q, inProgress |-> ip, results |-> rs,
        started |-> started]
  ELSE LET w == Winner(ip, st)
       IN RunLoop(q, Splice(ip, IndexOf(ip, w)),
                  Append(rs, Result(w, st[w])), started, st)

\* the files after a step in which the output file of the datasets in
\* unlinked was removed: attemptDownload, called for a dataset that was
\* queued or waiting, creates the file with fs.createWriteStream
Files(unlinked) ==
  pfile' = [d \in PAR |->
              IF pstate'[d] = "requesting" /\ pstate[d] \in {"queued", "waiting"}
              THEN TRUE
              ELSE IF d \in unlinked THEN FALSE ELSE pfile[d]]

\* the loop runs on after the states of the downloads became st
Resume(st) ==
  LET nx == IF ppc = "awaiting"
            THEN RunLoop(pqueue, inProgress, results, {}, st)
            ELSE [ppc |-> ppc, queue |-> pqueue, inProgress |-> inProgress,
                  results |-> results, started |-> {}]
  IN /\ ppc' = nx.ppc
     /\ pqueue' = nx.queue
     /\ inProgress' = nx.inProgress
     /\ results' = nx.results
     /\ pstate' = [d \in PAR |-> IF d \in nx.started THEN "requesting" ELSE st[d]]
     /\ attemptsLeft' = [d \in PAR |->
                           IF d \in nx.started THEN Retries ELSE attemptsLeft[d]]
     /\ attempts' = [d \in PAR |-> IF d \in nx.started THEN 1 ELSE attempts[d]]

\* main: downloadInParallel(datasetsToDownload, PARALLEL_DOWNLOADS) is
\* called and runs to its first await
StartParallel ==
  /\ ppc = "init"
  /\ LET nx == RunLoop([i \in 1..NumPar |-> i], <<>>, <<>>, {}, pstate)
     IN /\ ppc' = nx.ppc
        /\ pqueue' = nx.queue
        /\ inProgress' = nx.inProgress
        /\ results' = nx.results
        /\ pstate' = [d \in PAR |->
                        IF d \in nx.started THEN "requesting" ELSE pstate[d]]
        /\ attemptsLeft' = [d \in PAR |->
                              IF d \in nx.started THEN Retries ELSE 0]
        /\ attempts' = [d \in PAR |-> IF d \in nx.started THEN 1 ELSE 0]
  /\ Files({})
  /\ UNCHANGED <<perr, netErrors, reruns, manager, twoVars, viewVars,
                 pivotVars>>

\* a step of downloadDataset(d) that settles nothing: only pstate[d] changes
Move(d, to) ==
  /\ pstate' = [pstate EXCEPT ![d] = to]
  /\ Files({})
  /\ UNCHANGED <<ppc, pqueue, inProgress, results, attemptsLeft, attempts,
                 perr, netErrors, reruns, manager, twoVars, viewVars,
                 pivotVars>>

\* a faulty test: one more attempt is made when none is left
RetryWhenNoneLeft(left) == left >= 0

\* if (attemptsLeft > 0)
RetryAllowed(left) == left > 0

\* an error handler of attemptDownload: a retry after the backoff while
\* attempts are left, otherwise reject(err)
OnError(d, kind) ==
  /\ netErrors < MaxNetErrors
  /\ netErrors' = netErrors + 1
  /\ perr' = [perr EXCEPT ![d] = kind]
  /\ IF RetryAllowed(attemptsLeft[d])
     THEN /\ pstate' = [pstate EXCEPT ![d] = "waiting"]
          /\ UNCHANGED <<ppc, pqueue, inProgress, results, attemptsLeft,
                         attempts>>
     ELSE Resume([pstate EXCEPT ![d] = "rejected"])
  /\ Files(IF kind = "file" THEN {d} ELSE {})
  /\ UNCHANGED <<reruns, manager, twoVars, viewVars, pivotVars>>

\* a faulty status branch: a retry while attempts are left
OnBadStatusRetry(left) == IF left > 0 THEN "waiting" ELSE "rejected"

\* what a response with a status that is none of 200, 301, 302 leads to,
\* with left attempts left: reject at once
OnBadStatus(left) == "rejected"

\* the response to the first GET: 200, a redirect, or another status
PGetResponse(d) ==
  /\ pstate[d] = "requesting"
  /\ \/ Move(d, "streaming")
     \/ Move(d, "redirecting")
     \/ /\ perr' = [perr EXCEPT ![d] = "status"]
        /\ IF OnBadStatus(attemptsLeft[d]) = "rejected"
           THEN Resume([pstate EXCEPT ![d] = "rejected"])
           ELSE /\ pstate' = [pstate EXCEPT ![d] = "waiting"]
                /\ UNCHANGED <<ppc, pqueue, inProgress, results, attemptsLeft,
                               attempts>>
        /\ Files({})
        /\ UNCHANGED <<netErrors, reruns, manager, twoVars, viewVars,
                 pivotVars>>

\* 'error' on the first GET
PGetError(d) ==
  /\ pstate[d] = "requesting"
  /\ OnError(d, "network")

\* the response to the GET sent to the redirect location, whatever its status
PRedirectResponse(d) ==
  /\ pstate[d] = "redirecting"
  /\ Move(d, "streaming")

\* 'error' on the redirected GET
PRedirectError(d) ==
  /\ pstate[d] = "redirecting"
  /\ OnError(d, "network")

\* file.on('finish'): resolve({ success: true, ... })
PFinish(d) ==
  /\ pstate[d] = "streaming"
  /\ Resume([pstate EXCEPT ![d] = "resolved"])
  /\ Files({})
  /\ UNCHANGED <<perr, netErrors, reruns, manager, twoVars, viewVars,
                 pivotVars>>

\* file.on('error') while the body is piped
PFileError(d) ==
  /\ pstate[d] = "streaming"
  /\ OnError(d, "file")

\* 'error' on the request while the body is piped
PStreamError(d) ==
  /\ pstate[d] = "streaming"
  /\ OnError(d, "network")

\* the response is aborted in the middle of the body: it never ends, the
\* file stream never finishes and no handler runs
PStreamAborted(d) ==
  /\ pstate[d] = "streaming"
  /\ netErrors < MaxNetErrors
  /\ netErrors' = netErrors + 1
  /\ pstate' = [pstate EXCEPT ![d] = "stalled"]
  /\ Files({})
  /\ UNCHANGED <<ppc, pqueue, inProgress, results, attemptsLeft, attempts,
                 perr, reruns, manager, twoVars, viewVars,
                 pivotVars>>

\* the backoff timer fires: attemptDownload(attemptsLeft - 1)
PRetry(d) ==
  /\ pstate[d] = "waiting"
  /\ pstate' = [pstate EXCEPT ![d] = "requesting"]
  /\ attemptsLeft' = [attemptsLeft EXCEPT ![d] = @ - 1]
  /\ attempts' = [attempts EXCEPT ![d] = @ + 1]
  /\ Files({})
  /\ UNCHANGED <<ppc, pqueue, inProgress, results, perr, netErrors, reruns, manager, twoVars, viewVars,
                 pivotVars>>

\* the callbacks of the downloads of the parallel downloader
ParStep ==
  \/ \E d \in PAR : PGetResponse(d)
  \/ \E d \in PAR : PGetError(d)
  \/ \E d \in PAR : PRedirectResponse(d)
  \/ \E d \in PAR : PRedirectError(d)
  \/ \E d \in PAR : PFinish(d)
  \/ \E d \in PAR : PFileError(d)
  \/ \E d \in PAR : PStreamError(d)
  \/ \E d \in PAR : PStreamAborted(d)
  \/ \E d \in PAR : PRetry(d)

ParNext == StartParallel \/ ParStep

\* the script starts with its data directory and no dataset file
ParInit == Init /\ everSucceeded = {} /\ dirExists

ParSpec == ParInit /\ [][ParNext]_vars

\* the script is run, every pending request is eventually answered or
\* fails, and every timer fires
ParLiveSpec == ParInit /\ [][ParNext]_vars /\ WF_vars(ParNext)

\* datasetsToDownload of main: the datasets without a file at their path
Missing(files) == SelectSeq([i \in 1..NumPar |-> i], LAMBDA d : ~files[d])

\* the script has ended (downloadInParallel has returned and no download is
\* under way) and is run again: main filters the datasets and calls
\* downloadInParallel with those that have no file, or returns when there
\* are none
RunAgain ==
  /\ ppc = "returned"
  /\ \A d \in PAR : ~Running(pstate[d])
  /\ reruns < MaxReruns
  /\ reruns' = reruns + 1
  /\ LET todo == Missing(pfile)
         fresh == [d \in PAR |-> IF \E i \in 1..Len(todo) : todo[i] = d
                                 THEN "queued" ELSE pstate[d]]
         nx == RunLoop(todo, <<>>, <<>>, {}, fresh)
     IN /\ ppc' = nx.ppc
        /\ pqueue' = nx.queue
        /\ inProgress' = nx.inProgress
        /\ results' = nx.results
        /\ pstate' = [d \in PAR |->
                        IF d \in nx.started THEN "requesting" ELSE fresh[d]]
        /\ attemptsLeft' = [d \in PAR |->
                              IF d \in nx.started THEN Retries
                              ELSE attemptsLeft[d]]
        /\ attempts' = [d \in PAR |->
                          IF d \in nx.started THEN 1 ELSE attempts[d]]
        /\ perr' = [d \in PAR |-> IF fresh[d] = "queued" THEN "" ELSE perr[d]]
        /\ pfile' = [d \in PAR |-> pfile[d] \/ d \in nx.started]
  /\ UNCHANGED <<netErrors, manager, twoVars, viewVars, pivotVars>>

ParRunsNext == ParNext \/ RunAgain

\* the script is run, and run again after it has ended
ParRunsSpec == ParInit /\ [][ParRunsNext]_vars

(* =========================== the view server =========================== *)
\* Object.entries(DATASET_FILES): the dataset ids in the order of the object
\* literal, the main dataset first
DATASET_FILES ==
  SubSeq(<<"m9d7-ebf2", "8ys7-d773", "vezc-m2t6", "jhie-znh9", "kmfi-hrps",
           "3huj-srit", "w4rt-e856">>, 1, NumViewFiles)

VIEWSETS == {DATASET_FILES[i] : i \in 1..Len(DATASET_FILES)}

mainDataset == "m9d7-ebf2"

\* viewName of createView: `view_${datasetId.replace(/-/g, '_')}`; the ids
\* differ in other characters than '-', so the name stands for its dataset
ViewName(d) == "view_" \o d

\* what neither the view server nor its data directory touches
beside == <<manager, parVars, pivotVars, twoVars>>

Includes(s, d) == \E i \in 1..Len(s) : s[i] = d

\* createUnifiedView after its loop: it returns without a value when no
\* dataset is available or the main one is not, and else runs the statement
\* that defines view_unified
AfterLoop(av) ==
  IF Len(av) = 0
  THEN [pc |-> "done", idx |-> 0, avail |-> av, call |-> "returned"]
  ELSE IF ~Includes(av, mainDataset)
  THEN [pc |-> "done", idx |-> 0, avail |-> av, call |-> "returned"]
  ELSE [pc |-> "joining", idx |-> 0, avail |-> av, call |-> "none"]

\* the loop leaving out the datasets whose view is in createdViews
RECURSIVE ScanFromSkipsCreated(_, _, _, _)
ScanFromSkipsCreated(i, av, files, cv) ==
  IF i > Len(DATASET_FILES) THEN AfterLoop(av)
  ELSE IF DATASET_FILES[i] \notin files
  THEN ScanFromSkipsCreated(i + 1, av, files, cv)
  ELSE IF ViewName(DATASET_FILES[i]) \in cv
  THEN ScanFromSkipsCreated(i + 1, av, files, cv)
  ELSE [pc |-> "creating", idx |-> i, avail |-> av, call |-> "none"]

\* the loop of createUnifiedView from position i on, up to the first
\* createView that has to run a statement: a dataset without file is passed
\* over, one whose view is in createdViews is pushed at once (createView
\* returns early), and nothing else runs between these iterations
RECURSIVE ScanFrom(_, _, _, _)
ScanFrom(i, av, files, cv) ==
  IF i > Len(DATASET_FILES) THEN AfterLoop(av)
  ELSE IF DATASET_FILES[i] \notin files THEN ScanFrom(i + 1, av, files, cv)
  ELSE IF ViewName(DATASET_FILES[i]) \in cv
  THEN ScanFrom(i + 1, Append(av, DATASET_FILES[i]), files, cv)
  ELSE [pc |-> "creating", idx |-> i, avail |-> av, call |-> "none"]

\* POST /init-unified after the await: the success body unless the call threw
Respond(c) == IF c = "rejected" THEN "error" ELSE "created"

\* the endpoints that read view_unified: GET /unified/:column, GET /pivot,
\* POST /pivot-advanced, GET /vehicle/:kenteken and GET /kenteken/:kenteken
QUERIES == {"unified", "pivot", "pivot-advanced", "lookup"}

\* the endpoints that answer 400 before anything else: /pivot without column
\* or pivotColumn, /pivot-advanced without row and column dimension
VALIDATED == {"pivot", "pivot-advanced"}

\* a handler after its await of createUnifiedView, or after the test of
\* createdViews that made it skip the call: the catch answers 500 when the
\* call threw; else /init-unified answers and a query endpoint runs its
\* statement on view_unified
AfterCall(k, c) ==
  IF c = "rejected"
  THEN [pc |-> "done", response |-> "error", queried |-> FALSE]
  ELSE IF k = "init"
  THEN [pc |-> "done", response |-> Respond(c), queried |-> FALSE]
  ELSE [pc |-> "querying", response |-> "none", queried |-> TRUE]

\* request r, sent to endpoint k, goes on to where the call has got; when
\* the call has ended the handler goes on after its await
Proceed(r, k, to) ==
  LET ended == to.call # "none"
      after == AfterCall(k, to.call)
  IN  /\ rkind' = [rkind EXCEPT ![r] = k]
      /\ rpc' = [rpc EXCEPT ![r] = IF ended THEN after.pc ELSE to.pc]
      /\ ridx' = [ridx EXCEPT ![r] = to.idx]
      /\ avail' = [avail EXCEPT ![r] = to.avail]
      /\ call' = [call EXCEPT ![r] = to.call]
      /\ response' = [response EXCEPT
                        ![r] = IF ended THEN after.response ELSE "none"]
      /\ queried' = [queried EXCEPT ![r] = ended /\ after.queried]

\* POST /init-unified arrives and calls createUnifiedView
InitUnified(r) ==
  /\ rpc[r] = "idle"
  /\ Proceed(r, "init", ScanFrom(1, <<>>, csv, createdViews))
  /\ UNCHANGED <<csv, createdViews, unified, redefined, fileChanges,
                 disturbed, dropped, beside>>

\* a request arrives at a query endpoint: a request that fails the
\* endpoint's validation is answered 400; else createUnifiedView is called
\* when createdViews does not hold view_unified, and the statement is run
Query(r) ==
  /\ rpc[r] = "idle"
  /\ \E k \in QUERIES, invalid \in BOOLEAN :
       IF invalid /\ k \in VALIDATED
       THEN /\ rkind' = [rkind EXCEPT ![r] = k]
            /\ rpc' = [rpc EXCEPT ![r] = "done"]
            /\ response' = [response EXCEPT ![r] = "bad_request"]
            /\ UNCHANGED <<ridx, avail, call, queried>>
       ELSE IF "view_unified" \in createdViews
       THEN Proceed(r, k, [pc |-> "done", idx |-> 0, avail |-> <<>>,
                           call |-> "notcalled"])
       ELSE Proceed(r, k, ScanFrom(1, <<>>, csv, createdViews))
  /\ UNCHANGED <<csv, createdViews, unified, redefined, fileChanges,
                 disturbed, dropped, beside>>

\* the callback of connection.all of a query endpoint: the engine's error is
\* answered 500, rows are answered; the engine knows no view_unified unless
\* it was defined
QueryDone(r) ==
  /\ rpc[r] = "querying"
  /\ \E err \in {e \in BOOLEAN : unified = <<>> => e} :
       response' = [response EXCEPT ![r] = IF err THEN "error" ELSE "rows"]
  /\ rpc' = [rpc EXCEPT ![r] = "done"]
  /\ UNCHANGED <<csv, createdViews, unified, ridx, avail, call, redefined,
                 fileChanges, rkind, queried, disturbed, dropped, beside>>

\* the callback of connection.run in createView: an error is caught by the
\* loop, which goes on without the dataset; else the view is recorded and
\* the dataset pushed
CreateViewDone(r) ==
  /\ rpc[r] = "creating"
  /\ \E err \in BOOLEAN :
       LET d == DATASET_FILES[ridx[r]]
           cv == IF err THEN createdViews ELSE createdViews \cup {ViewName(d)}
           av == IF err THEN avail[r] ELSE Append(avail[r], d)
       IN  /\ createdViews' = cv
           /\ dropped' = [dropped EXCEPT ![r] = IF err THEN @ \cup {d} ELSE @]
           /\ Proceed(r, rkind[r], ScanFrom(ridx[r] + 1, av, csv, cv))
  /\ UNCHANGED <<csv, unified, redefined, fileChanges, disturbed, beside>>

\* the callback of connection.run in createUnifiedView: an error rejects,
\* else view_unified is defined over availableDatasets and recorded
JoinDone(r) ==
  /\ rpc[r] = "joining"
  /\ \E err \in BOOLEAN :
       IF err
       THEN /\ Proceed(r, rkind[r], [pc |-> "done", idx |-> 0,
                                     avail |-> avail[r], call |-> "rejected"])
            /\ UNCHANGED <<createdViews, unified, redefined>>
       ELSE /\ Proceed(r, rkind[r], [pc |-> "done", idx |-> 0,
                                     avail |-> avail[r], call |-> "resolved"])
            /\ createdViews' = createdViews \cup {"view_unified"}
            /\ unified' = avail[r]
            /\ redefined' = [redefined EXCEPT ![r] = TRUE]
  /\ UNCHANGED <<csv, fileChanges, disturbed, dropped, beside>>

\* the calls of createUnifiedView that are under way
Building == {r \in REQS : rpc[r] \in {"creating", "joining"}}

\* a download puts a dataset file into the data directory
FileAppears(d) ==
  /\ fileChanges < MaxFileChanges
  /\ d \notin csv
  /\ csv' = csv \cup {d}
  /\ fileChanges' = fileChanges + 1
  /\ disturbed' = [r \in REQS |-> disturbed[r] \/ r \in Building]
  /\ UNCHANGED <<createdViews, unified, rpc, ridx, avail, call, response,
                 redefined, rkind, queried, dropped, beside>>

\* a dataset file is removed from the data directory
FileRemoved(d) ==
  /\ fileChanges < MaxFileChanges
  /\ d \in csv
  /\ csv' = csv \ {d}
  /\ fileChanges' = fileChanges + 1
  /\ disturbed' = [r \in REQS |-> disturbed[r] \/ r \in Building]
  /\ UNCHANGED <<createdViews, unified, rpc, ridx, avail, call, response,
                 redefined, rkind, queried, dropped, beside>>

ViewNext ==
  \/ \E r \in REQS : InitUnified(r)
  \/ \E r \in REQS : Query(r)
  \/ \E r \in REQS : QueryDone(r)
  \/ \E r \in REQS : CreateViewDone(r)
  \/ \E r \in REQS : JoinDone(r)
  \/ \E d \in VIEWSETS : FileAppears(d)
  \/ \E d \in VIEWSETS : FileRemoved(d)

\* the server runs beside a data directory that downloads fill
ViewInit == Init /\ everSucceeded = {} /\ dirExists

ViewSpec == ViewInit /\ [][ViewNext]_vars

(* ========================= the pivot compiler ========================== *)
\* what POST /pivot-advanced and the joined dataset never touch
apart == <<manager, parVars, viewVars, twoVars>>

\* a string is the sequence of its characters; the characters of the values
\* a caller sends: a letter, the single quote and a digit
Chars == {"T", "'", "1"}

RECURSIVE StringsOf(_)
StringsOf(n) ==
  IF n = 0 THEN {<<>>}
  ELSE LET shorter == StringsOf(n - 1)
       IN  shorter \cup {Append(v, c) : v \in shorter, c \in Chars}

Strings == StringsOf(MaxValueLen)

Digits == <<"1", "2", "3", "4", "5", "6", "7", "8", "9">>
IsDigit(c) == \E i \in 1..Len(Digits) : Digits[i] = c
DigitOf(c) == CHOOSE i \in 1..Len(Digits) : Digits[i] = c

\* the number a string of digits denotes
RECURSIVE NumberOf(_)
NumberOf(v) ==
  IF v = <<>> THEN 0
  ELSE 10 * NumberOf(SubSeq(v, 1, Len(v) - 1)) + DigitOf(v[Len(v)])

\* the longest prefix of v made of digits
RECURSIVE DigitPrefix(_)
DigitPrefix(v) ==
  IF v = <<>> THEN <<>>
  ELSE IF IsDigit(v[1]) THEN <<v[1]>> \o DigitPrefix(Tail(v))
  ELSE <<>>

\* a filter value that is no string: the JSON number 7
NotAString == <<"[number 7]">>

\* an aggregation that is no string: a JSON number or null
NoStringAggregation == "[number]"

\* parseFloat(v): the number at the start of v, NaN when there is none; a
\* number is converted to its digits first
ParseFloat(v) ==
  IF v = NotAString THEN DigitOf("7")
  ELSE IF DigitPrefix(v) = <<>> THEN NaN ELSE NumberOf(DigitPrefix(v))

\* NULL of the engine
Null == <<"null">>

\* the fixture of the main dataset: five vehicles, three of them TESLA
Tesla == <<"T">>
MainRows ==
  << [kenteken |-> <<"K", "1">>, merk |-> Tesla],
     [kenteken |-> <<"K", "2">>, merk |-> Tesla],
     [kenteken |-> <<"K", "3">>, merk |-> Tesla],
     [kenteken |-> <<"K", "4">>, merk |-> <<"B">>],
     [kenteken |-> <<"K", "5">>, merk |-> <<"B">>] >>

\* the plates that have rows in the joined dataset
FANNED == {<<"K", "1">>, <<"K", "4">>}

\* the rows main LEFT JOIN view ON main.kenteken = view.kenteken gives for
\* one row of main: one per matching row, or one with NULLs when none matches
JoinedRows(m, n) ==
  IF n = 0
  THEN << [kenteken |-> m.kenteken, merk |-> m.merk, as_nummer |-> Null] >>
  ELSE [i \in 1..n |-> [kenteken |-> m.kenteken, merk |-> m.merk,
                        as_nummer |-> <<Digits[i]>>]]

\* view_unified: the main dataset left-joined with the other dataset
RECURSIVE LeftJoin(_, _)
LeftJoin(main, subs) ==
  IF main = <<>> THEN <<>>
  ELSE JoinedRows(main[1], subs[main[1].kenteken]) \o LeftJoin(Tail(main), subs)

Columns == {"kenteken", "merk", "as_nummer"}

(* ----------------------- filter clause construction -------------------- *)
\* the mutation of escapeValue that escapes nothing
EscapeNothing(v) == v

\* escapeValue: v.replace(/'/g, "''")
RECURSIVE escapeValue(_)
escapeValue(v) ==
  IF v = <<>> THEN <<>>
  ELSE IF v[1] = "'" THEN <<"'", "'">> \o escapeValue(Tail(v))
  ELSE <<v[1]>> \o escapeValue(Tail(v))

StringOps == {"equals", "not_equals", "contains", "starts_with", "ends_with"}
NumberOps == {"greater_than", "less_than", "greater_or_equal", "less_or_equal"}
Operators == StringOps \cup NumberOps \cup {"between"}

\* !x of a value: the empty string, which also stands for the absent one
Falsy(v) == Len(v) = 0

Pred(c, op, text, n, n2) ==
  [column |-> c, op |-> op, text |-> text, num |-> n, num2 |-> n2]

\* the text between the quotes of the literal of a string rule
Quoted(operator, v) ==
  CASE operator = "contains" -> <<"%">> \o escapeValue(v) \o <<"%">>
    [] operator = "starts_with" -> escapeValue(v) \o <<"%">>
    [] operator = "ends_with" -> <<"%">> \o escapeValue(v)
    [] OTHER -> escapeValue(v)

\* the mutation of the inert test that lets a rule without value through
SkippedNever(filter) == FALSE

\* `if (!filter.field || !filter.value) return`
Skipped(filter) == filter.field = "" \/ Falsy(filter.value)

\* the switch on the operator: what one rule pushes to filterConditions
Conditions(filter) ==
  LET column == filter.field
      operator == IF filter.operator = "" THEN "equals" ELSE filter.operator
      value == filter.value
      value2 == filter.value2
  IN  IF Skipped(filter) THEN <<>>
      ELSE CASE operator = "equals" ->
                  << Pred(column, "=", <<"'">> \o Quoted(operator, value) \o <<"'">>, 0, 0) >>
             [] operator = "not_equals" ->
                  << Pred(column, "!=", <<"'">> \o Quoted(operator, value) \o <<"'">>, 0, 0) >>
             [] operator = "greater_than" ->
                  << Pred(column, ">", <<>>, ParseFloat(value), 0) >>
             [] operator = "less_than" ->
                  << Pred(column, "<", <<>>, ParseFloat(value), 0) >>
             [] operator = "greater_or_equal" ->
                  << Pred(column, ">=", <<>>, ParseFloat(value), 0) >>
             [] operator = "less_or_equal" ->
                  << Pred(column, "<=", <<>>, ParseFloat(value), 0) >>
             [] operator = "between" ->
                  IF Falsy(value2) THEN <<>>
                  ELSE << Pred(column, "BETWEEN", <<>>, ParseFloat(value),
                               ParseFloat(value2)) >>
             [] operator \in {"contains", "starts_with", "ends_with"} ->
                  << Pred(column, "LIKE", <<"'">> \o Quoted(operator, value) \o <<"'">>, 0, 0) >>
             [] OTHER -> <<>>

\* filters.forEach: the conditions of the rules, in their order
RECURSIVE FilterConditions(_)
FilterConditions(filters) ==
  IF filters = <<>> THEN <<>>
  ELSE Conditions(filters[1]) \o FilterConditions(Tail(filters))

\* `"col" IS NOT NULL AND "col" != ''` for every dimension
DimensionConditions(dims) ==
  [i \in 1..Len(dims) |-> Pred(dims[i], "present", <<>>, 0, 0)]

\* the conditions joined by AND after WHERE; no WHERE when there are none
WhereClause(rows, columns, filters) ==
  FilterConditions(filters) \o DimensionConditions(rows \o columns)

(* ------------------------ aggregation projection ----------------------- *)
\* aggregation.toUpperCase()
ToUpperCase(a) ==
  CASE a = "count" -> "COUNT"
    [] a = "count_distinct" -> "COUNT_DISTINCT"
    [] OTHER -> a

\* the mutation of the projection that counts rows
AggFuncCountsRows(val) == [func |-> "COUNT", column |-> val.column]

\* one element of selectValues: `const { column, aggregation =
\* 'COUNT_DISTINCT' } = val`, the switch, and the column as the template
\* renders it ("undefined" when val has no key 'column')
AggFunc(val) ==
  LET aggregation == IF val.aggregation = Undef THEN "COUNT_DISTINCT"
                     ELSE ToUpperCase(val.aggregation)
  IN  [func |-> IF aggregation \in {"COUNT", "COUNT_DISTINCT", "SUM", "AVG",
                                    "MIN", "MAX"}
                THEN aggregation ELSE "COUNT_DISTINCT",
       column |-> val.column]

\* the mutation of the default that supplies nothing
DefaultNothing(values) == values

\* `if (values.length === 0) values.push({column: 'kenteken', aggregation:
\* 'COUNT_DISTINCT'})`
DefaultValues(values) ==
  IF Len(values) = 0
  THEN << [column |-> "kenteken", field |-> Undef,
           aggregation |-> "COUNT_DISTINCT"] >>
  ELSE values

\* the assembly of the statement throws a TypeError: escapeValue calls
\* v.replace on a value that is no string, the projection calls
\* aggregation.toUpperCase() on an aggregation that is no string
Throws(b) ==
  \/ \E i \in 1..Len(b.filters) :
       /\ ~Skipped(b.filters[i])
       /\ b.filters[i].operator \in StringOps \cup {""}
       /\ b.filters[i].value = NotAString
  \/ \E i \in 1..Len(b.values) :
       b.values[i].aggregation = NoStringAggregation

\* the statement: SELECT dims, aggs[i] as value_(i-1) FROM view_unified
\* WHERE ... GROUP BY dims
Compile(b) ==
  [dims |-> b.rows \o b.columns,
   aggs |-> [i \in 1..Len(DefaultValues(b.values)) |->
               AggFunc(DefaultValues(b.values)[i])],
   where |-> WhereClause(b.rows, b.columns, b.filters)]

(* ------------------------------ the engine ----------------------------- *)
\* the engine reads a string literal from its opening quote: two quotes
\* stand for one, a single quote ends it; what follows the literal is left
RECURSIVE ReadFrom(_, _)
ReadFrom(text, got) ==
  IF text = <<>> THEN [value |-> got, rest |-> <<>>, closed |-> FALSE]
  ELSE IF text[1] # "'" THEN ReadFrom(Tail(text), Append(got, text[1]))
  ELSE IF Len(text) >= 2 /\ text[2] = "'"
  THEN ReadFrom(SubSeq(text, 3, Len(text)), Append(got, "'"))
  ELSE [value |-> got, rest |-> Tail(text), closed |-> TRUE]

ReadLiteral(text) ==
  IF text = <<>> \/ text[1] # "'"
  THEN [value |-> <<>>, rest |-> text, closed |-> FALSE]
  ELSE ReadFrom(Tail(text), <<>>)

\* the literal is one whole string literal and nothing else
WellFormed(text) == ReadLiteral(text).closed /\ ReadLiteral(text).rest = <<>>

\* s LIKE pattern, % standing for any run of characters
RECURSIVE Like(_, _)
Like(str, pattern) ==
  IF pattern = <<>> THEN str = <<>>
  ELSE IF pattern[1] = "%"
  THEN \E k \in 0..Len(str) :
         Like(SubSeq(str, k + 1, Len(str)), Tail(pattern))
  ELSE /\ str # <<>>
       /\ str[1] = pattern[1]
       /\ Like(Tail(str), Tail(pattern))

\* TRY_CAST(cell AS DOUBLE): NaN stands for the NULL of a failed cast
TryCast(cell) ==
  IF cell # Null /\ cell # <<>> /\ \A i \in 1..Len(cell) : IsDigit(cell[i])
  THEN NumberOf(cell) ELSE NaN

\* a condition on a row
Holds(p, row) ==
  LET cell == row[p.column]
  IN  CASE p.op = "present" -> cell # Null /\ cell # <<>>
        [] p.op = "=" -> cell # Null /\ cell = ReadLiteral(p.text).value
        [] p.op = "!=" -> cell # Null /\ cell # ReadLiteral(p.text).value
        [] p.op = "LIKE" -> cell # Null /\ Like(cell, ReadLiteral(p.text).value)
        [] p.op = ">" -> TryCast(cell) # NaN /\ TryCast(cell) > p.num
        [] p.op = "<" -> TryCast(cell) # NaN /\ TryCast(cell) < p.num
        [] p.op = ">=" -> TryCast(cell) # NaN /\ TryCast(cell) >= p.num
        [] p.op = "<=" -> TryCast(cell) # NaN /\ TryCast(cell) <= p.num
        [] p.op = "BETWEEN" -> /\ TryCast(cell) # NaN
                               /\ TryCast(cell) >= p.num
                               /\ TryCast(cell) <= p.num2

\* what the binder refuses: a column view_unified does not have, a literal
\* that is not one literal, NaN where a number is expected
Refused(q) ==
  \/ \E i \in 1..Len(q.dims) : q.dims[i] \notin Columns
  \/ \E i \in 1..Len(q.aggs) : q.aggs[i].column \notin Columns
  \/ \E i \in 1..Len(q.where) :
       \/ q.where[i].column \notin Columns
       \/ q.where[i].op \in {"=", "!=", "LIKE"} /\ ~WellFormed(q.where[i].text)
       \/ q.where[i].num = NaN
       \/ q.where[i].num2 = NaN

\* an aggregate over the rows of a group: COUNT counts the rows whose cell is
\* not NULL, COUNT(DISTINCT) the distinct cells that are not NULL
Aggregate(agg, relation, members) ==
  CASE agg.func = "COUNT" ->
         Cardinality({i \in members : relation[i][agg.column] # Null})
    [] agg.func = "COUNT_DISTINCT" ->
         Cardinality({relation[i][agg.column] : i \in members} \ {Null})
    [] OTHER -> 0

\* the rows of the answer: one for each group of the rows that satisfy the
\* conditions
Rows(q, relation) ==
  LET kept == {i \in 1..Len(relation) :
                 \A j \in 1..Len(q.where) : Holds(q.where[j], relation[i])}
      key(i) == [d \in 1..Len(q.dims) |-> relation[i][q.dims[d]]]
  IN  { [dims |-> key(i),
         values |-> [a \in 1..Len(q.aggs) |->
                       Aggregate(q.aggs[a], relation,
                                 {j \in kept : key(j) = key(i)})]]
        : i \in kept }

(* ------------------------- POST /pivot-advanced ------------------------ *)
\* the value specifications a caller sends: none, the identifier under the
\* key 'column' the handler reads, under the key 'field' of the data model,
\* a row count, and an aggregation the handler does not know
ValueSpecs ==
  { [column |-> "kenteken", field |-> Undef, aggregation |-> "COUNT_DISTINCT"],
    [column |-> Undef, field |-> "kenteken", aggregation |-> "COUNT_DISTINCT"],
    [column |-> "kenteken", field |-> Undef, aggregation |-> "count"],
    [column |-> "kenteken", field |-> Undef, aggregation |-> Undef],
    [column |-> "kenteken", field |-> Undef,
     aggregation |-> NoStringAggregation] }

FilterRules ==
  [field : {"", "merk", "as_nummer"}, operator : Operators \cup {""},
   value : Strings \cup {NotAString},
   value2 : {<<>>, <<"1">>}]

RECURSIVE RuleLists(_)
RuleLists(n) ==
  IF n = 0 THEN {<<>>}
  ELSE LET shorter == RuleLists(n - 1)
       IN  shorter \cup {Append(fs, f) : fs \in shorter, f \in FilterRules}

Rule(f, op, v, v2) == [field |-> f, operator |-> op, value |-> v, value2 |-> v2]

\* rules that are sent in pairs: two that filter, and one of each kind that
\* the handler passes over
PairedRules ==
  { Rule("merk", "equals", Tesla, <<>>),
    Rule("as_nummer", "between", <<"1">>, <<"1">>),
    Rule("", "equals", Tesla, <<>>),
    Rule("merk", "contains", <<>>, <<>>),
    Rule("as_nummer", "between", <<"1">>, <<>>) }

Bodies ==
  [rows : {<<>>, <<"merk">>}, columns : {<<>>, <<"as_nummer">>},
   values : {<<>>} \cup {<<v>> : v \in ValueSpecs},
   filters : RuleLists(MaxRules) \cup {<<f, g>> : f, g \in PairedRules}]

\* the mutation of the error answer that answers an empty result
OnEngineErrorEmpty(msg) == [status |-> "200", data |-> {}, error |-> ""]

\* `res.status(500).json({ error: err.message })`
OnEngineError(msg) == [status |-> "500", data |-> {}, error |-> msg]

\* the request arrives: 400 without a dimension; else the default value, the
\* statement is assembled and handed to connection.all; a TypeError thrown
\* by the assembly, inside the executor of the promise the handler returns,
\* rejects that promise, which nothing awaits: the catch block of the
\* handler does not run and no answer is sent
PivotAdvanced ==
  /\ qpc = "idle"
  /\ \E b \in Bodies :
       /\ body' = b
       /\ IF Len(b.rows) = 0 /\ Len(b.columns) = 0
          THEN /\ qpc' = "answered"
               /\ answer' = [status |-> "400", data |-> {},
                             error |-> "dimension required"]
               /\ sql' = sql
          ELSE IF Throws(b)
          THEN /\ qpc' = "unanswered"
               /\ UNCHANGED <<sql, answer>>
          ELSE /\ qpc' = "running"
               /\ sql' = Compile(b)
               /\ answer' = answer
  /\ UNCHANGED <<engineErr, subRecords, request, limitClause, apart>>

\* the callback of connection.all: the engine's error is answered 500 with
\* its message, else the rows are answered; the engine fails on a statement
\* the binder refuses, and may fail on any other (memory, a file gone)
PivotDone ==
  /\ qpc = "running"
  /\ \E err \in {"", "Binder Error", "Out of Memory Error"} :
       /\ Refused(sql) <=> err = "Binder Error"
       /\ engineErr' = err
       /\ answer' = IF err # "" THEN OnEngineError(err)
                    ELSE [status |-> "200",
                          data |-> Rows(sql, LeftJoin(MainRows, subRecords)),
                          error |-> ""]
  /\ qpc' = "answered"
  /\ UNCHANGED <<body, sql, subRecords, request, limitClause, apart>>

\* the joined dataset gets one more row for a license plate
AddSubRecord(k) ==
  /\ qpc = "idle"
  /\ subRecords[k] < MaxSubRecords
  /\ subRecords' = [subRecords EXCEPT ![k] = @ + 1]
  /\ UNCHANGED <<qpc, body, sql, answer, engineErr, request, limitClause,
               apart>>

\* the identifiers a caller puts in the path of the lookup: the route does
\* not match an empty one
Identifiers ==
  (Strings \ {<<>>}) \cup {<<"K", "1">>, <<"k", "1">>, <<"K", "9">>}

\* UPPER(s)
Upper(v) == [i \in 1..Len(v) |-> IF v[i] = "k" THEN "K" ELSE v[i]]

\* '${kenteken}': the identifier between two quotes, as it is
LookupLiteral(k) == <<"'">> \o k \o <<"'">>

\* WHERE UPPER(kenteken) = UPPER(<literal>) over view_unified
LookupRows(text, relation) ==
  {i \in 1..Len(relation) :
     /\ relation[i].kenteken # Null
     /\ Upper(relation[i].kenteken) = Upper(ReadLiteral(text).value)}

\* GET /kenteken/:kenteken and GET /vehicle/:kenteken arrive: the statement
\* is assembled and handed to connection.all
Lookup ==
  /\ qpc = "idle"
  /\ \E k \in Identifiers : request' = [kind |-> "lookup", param |-> k]
  /\ qpc' = "looking"
  /\ UNCHANGED <<body, sql, answer, engineErr, subRecords, limitClause,
                 apart>>

\* the callback of connection.all of the lookup: the engine's error is
\* answered 500, no row 404 'Vehicle not found', else the one row LIMIT 1
\* leaves; the engine fails on a statement it cannot parse, and may fail on
\* any other
LookupDone ==
  /\ qpc = "looking"
  /\ LET text == LookupLiteral(request.param)
         relation == LeftJoin(MainRows, subRecords)
         found == LookupRows(text, relation)
     IN  \E err \in {"", "Parser Error", "Out of Memory Error"} :
           /\ ~WellFormed(text) <=> err = "Parser Error"
           /\ engineErr' = err
           /\ IF err # ""
              THEN answer' = [status |-> "500", data |-> {}, error |-> err]
              ELSE IF found = {}
              THEN answer' = [status |-> "404", data |-> {},
                              error |-> "Vehicle not found"]
              ELSE \E i \in found :
                     answer' = [status |-> "200", data |-> {relation[i]},
                                error |-> ""]
  /\ qpc' = "answered"
  /\ UNCHANGED <<body, sql, subRecords, request, limitClause, apart>>

\* req.query.$limit: undefined when the parameter is absent, else its text
Absent == <<"undefined">>
LimitChars == {"-", "0", "1", "2", "x"}

RECURSIVE LimitStrings(_)
LimitStrings(n) ==
  IF n = 0 THEN {<<>>}
  ELSE LET shorter == LimitStrings(n - 1)
       IN  shorter \cup {Append(v, c) : v \in shorter, c \in LimitChars}

LimitParams == {Absent} \cup LimitStrings(MaxLimitLen)

IsDecimal(c) == c = "0" \/ IsDigit(c)
DecimalOf(c) == IF c = "0" THEN 0 ELSE DigitOf(c)

RECURSIVE DecimalPrefix(_)
DecimalPrefix(v) ==
  IF v = <<>> \/ v = Absent THEN <<>>
  ELSE IF IsDecimal(v[1]) THEN <<v[1]>> \o DecimalPrefix(Tail(v))
  ELSE <<>>

RECURSIVE DecimalNumber(_)
DecimalNumber(v) ==
  IF v = <<>> THEN 0
  ELSE 10 * DecimalNumber(SubSeq(v, 1, Len(v) - 1)) + DecimalOf(v[Len(v)])

\* parseInt(v): an optional sign and the digits that follow it; nan when
\* there is no digit
ParseInt(v) ==
  LET neg == v # <<>> /\ v[1] = "-"
      ds == DecimalPrefix(IF neg THEN Tail(v) ELSE v)
  IN  [nan |-> ds = <<>>,
       n |-> IF neg THEN 0 - DecimalNumber(ds) ELSE DecimalNumber(ds)]

\* let limit = $limit === '' ? -1 : (parseInt($limit) || 0)
LimitOf(p) ==
  IF p = <<>> THEN -1
  ELSE IF ParseInt(p).nan \/ ParseInt(p).n = 0 THEN 0
  ELSE ParseInt(p).n

DefaultLimit == 1000

\* limit === -1 ? '' : (limit > 0 ? `LIMIT ${limit}` : 'LIMIT 1000')
LimitClause(limit) ==
  IF limit = -1 THEN <<>>
  ELSE IF limit > 0 THEN <<limit>> ELSE <<DefaultLimit>>

\* the rows a statement with that clause gives: the distinct values of the
\* column in order, cut at the limit
Limited(clause, relation) ==
  LET n == IF clause = <<>> \/ clause[1] > Len(relation)
           THEN Len(relation) ELSE clause[1]
  IN  {[kenteken |-> relation[i].kenteken] : i \in 1..n}

\* GET /resource/:datasetId.json arrives with $select=kenteken: the limit is
\* read from $limit and queryDuckDB hands the statement to connection.all
Resource ==
  /\ qpc = "idle"
  /\ \E p \in LimitParams :
       /\ request' = [kind |-> "resource", param |-> p]
       /\ limitClause' = LimitClause(LimitOf(p))
  /\ qpc' = "querying"
  /\ UNCHANGED <<body, sql, answer, engineErr, subRecords, apart>>

\* the callback of connection.all in queryDuckDB: the rows are answered, an
\* error rejects the promise and the handler answers 500
ResourceDone ==
  /\ qpc = "querying"
  /\ \E err \in {"", "Out of Memory Error"} :
       /\ engineErr' = err
       /\ answer' = IF err # ""
                    THEN [status |-> "500", data |-> {}, error |-> err]
                    ELSE [status |-> "200",
                          data |-> Limited(limitClause, MainRows),
                          error |-> ""]
  /\ qpc' = "answered"
  /\ UNCHANGED <<body, sql, subRecords, request, limitClause, apart>>

PivotNext ==
  \/ PivotAdvanced
  \/ PivotDone
  \/ \E k \in FANNED : AddSubRecord(k)
  \/ Lookup
  \/ LookupDone
  \/ Resource
  \/ ResourceDone

\* the server runs with view_unified created
PivotInit == Init /\ everSucceeded = {} /\ dirExists

PivotSpec == PivotInit /\ [][PivotNext]_vars

(* ================= two passes of POST /api/download ==================== *)
\* what two concurrent passes never touch
others == <<manager, parVars, viewVars, pivotVars>>

\* const file = fs.createWriteStream(outputPath) of pass p for dataset k
OpenStream(p, k) ==
  /\ tpc' = [tpc EXCEPT ![p] = "requesting"]
  /\ tcur' = [tcur EXCEPT ![p] = k]
  /\ tfile' = [tfile EXCEPT ![k] = TRUE]
  /\ writers' = [writers EXCEPT ![k] = @ \cup {p}]

\* pass p goes on with dataset k after what it did left the files as fl and
\* the open streams as wr: past the last dataset the pass ends; a file at the
\* canonical path sends the HEAD request, no file opens the write stream
GoOn(p, k, fl, wr) ==
  IF k > NumDatasets
  THEN /\ tpc' = [tpc EXCEPT ![p] = "done"]
       /\ tcur' = [tcur EXCEPT ![p] = 0]
       /\ tfile' = fl
       /\ writers' = wr
  ELSE IF fl[k]
  THEN /\ tpc' = [tpc EXCEPT ![p] = "probing"]
       /\ tcur' = [tcur EXCEPT ![p] = k]
       /\ tfile' = fl
       /\ writers' = wr
  ELSE /\ tpc' = [tpc EXCEPT ![p] = "requesting"]
       /\ tcur' = [tcur EXCEPT ![p] = k]
       /\ tfile' = [fl EXCEPT ![k] = TRUE]
       /\ writers' = [wr EXCEPT ![k] = @ \cup {p}]

\* POST /api/download: the pass loads the store and starts on the first
\* dataset, whatever another pass is doing
TStart(p) ==
  /\ tpc[p] = "idle"
  /\ tmeta' = [tmeta EXCEPT ![p] = tstore]
  /\ GoOn(p, 1, tfile, writers)
  /\ UNCHANGED <<tstore, others>>

\* the HEAD request of pass p is answered or fails: skipped when the entry of
\* the pass's own copy matches, else the write stream is opened
TProbe(p) ==
  /\ tpc[p] = "probing"
  /\ \E answered \in BOOLEAN :
       IF /\ answered
          /\ tmeta[p][tcur[p]] # NoEntry
          /\ UpToDate(Resolved(remote[tcur[p]]), tmeta[p][tcur[p]])
       THEN GoOn(p, tcur[p] + 1, tfile, writers)
       ELSE OpenStream(p, tcur[p])
  /\ UNCHANGED <<tmeta, tstore, others>>

\* the GET of pass p is answered: 200 pipes the response into the stream,
\* any other answer or an error ends the download as failed
TResponse(p) ==
  /\ tpc[p] = "requesting"
  /\ \E ok \in BOOLEAN :
       IF ok
       THEN /\ tpc' = [tpc EXCEPT ![p] = "streaming"]
            /\ UNCHANGED <<tcur, tfile, writers>>
       ELSE GoOn(p, tcur[p] + 1, tfile,
                 [writers EXCEPT ![tcur[p]] = @ \ {p}])
  /\ UNCHANGED <<tmeta, tstore, others>>

\* file.on('finish') of pass p: the stream is closed, the entry is put in the
\* pass's own copy and the whole copy is written over the store
TFinish(p) ==
  /\ tpc[p] = "streaming"
  /\ LET k == tcur[p]
         md == [tmeta[p] EXCEPT ![k] = NewEntry(remote[k], MaxChunks)]
     IN  /\ tmeta' = [tmeta EXCEPT ![p] = md]
         /\ tstore' = SaveMetadata(md)
         /\ GoOn(p, k + 1, tfile, [writers EXCEPT ![k] = @ \ {p}])
  /\ UNCHANGED others

\* file.on('error') of pass p: the path is unlinked and the download failed
TFileError(p) ==
  /\ tpc[p] = "streaming"
  /\ GoOn(p, tcur[p] + 1, [tfile EXCEPT ![tcur[p]] = FALSE],
          [writers EXCEPT ![tcur[p]] = @ \ {p}])
  /\ UNCHANGED <<tmeta, tstore, others>>

TwoNext ==
  \/ \E p \in PASSES : TStart(p)
  \/ \E p \in PASSES : TProbe(p)
  \/ \E p \in PASSES : TResponse(p)
  \/ \E p \in PASSES : TFinish(p)
  \/ \E p \in PASSES : TFileError(p)

\* the server runs with its data directory
TwoInit == Init /\ dirExists

TwoSpec == TwoInit /\ [][TwoNext]_vars

(* ============================== properties ============================= *)
\* positions in the event stream of the events of type t about dataset d
Idx(d, t) ==
  {i \in 1..Len(events) : events[i].type = t /\ events[i].dataset = d}
\* positions of the 'complete' events
CompleteIdx == {i \in 1..Len(events) : events[i].type = "complete"}
\* the file of d is the whole body of a 200 response
WholeFile(d) == file[d].exists /\ file[d].content = "payload"
\* 'completed' has been reported for d in the running pass
CompletedReported(d) ==
  \E i \in Idx(d, "progress") : events[i].status = "completed"

(* C1: in behaviours made of synchronization passes alone, whenever a        *)
(* dataset is classified skipped, the file at its path is the complete file  *)
(* written by the download that produced the stored entry: it is never a     *)
(* truncated, empty or partial file left by a failed or interrupted fetch.   *)
C1_SkippedFileIsComplete ==
  \A d \in DATASETS :
    (bootstraps = 0 /\ outcome[d] = "skipped") =>
      /\ WholeFile(d)
      /\ metadata[d] # NoEntry
      /\ Field(metadata[d], "lastModified") = file[d].from.lastModified
      /\ Field(metadata[d], "etag") = file[d].from.etag

(* C2: after downloadDataset has reported a dataset failed, whatever the     *)
(* way the fetch failed, no file exists at the dataset's path.               *)
C2_FailedLeavesNoFile ==
  \A d \in DATASETS : outcome[d] = "failed" => ~file[d].exists

NothingNew(kinds) == \A d \in DATASETS : check[d] \in kinds

C5_EntryIffDownloaded ==
  \A d \in DATASETS : (metaFile[d] # NoEntry) <=> (d \in everSucceeded)

(* C6: within a pass the entry of a dataset changes, and 'completed' is      *)
(* reported for it, only in the step in which its file stream finishes; the  *)
(* entry then holds the Last-Modified and ETag of the response whose body    *)
(* was written and the number of bytes in the file, and it is in the         *)
(* metadata file when 'completed' is reported and success is returned.       *)
C6_EntryWrittenAtFinish ==
  [][\A d \in DATASETS :
       ((pc \notin {"idle", "closed"} /\ pc' # "idle")
          /\ (metadata'[d] # metadata[d]
                \/ (CompletedReported(d)' /\ ~CompletedReported(d))
                \/ (outcome'[d] = "completed" /\ outcome[d] # "completed")))
       => /\ pc = "streaming" /\ cur = d
          /\ file[d].exists /\ file[d].content = "truncated"
          /\ file'[d].exists /\ file'[d].content # "truncated"
          /\ file'[d].size = downloadedBytes
          /\ metadata'[d] # NoEntry
          /\ Field(metadata'[d], "lastModified") = file'[d].from.lastModified
          /\ Field(metadata'[d], "etag") = file'[d].from.etag
          /\ metadata'[d].size = file'[d].size
          /\ metaFile'[d] = StringifyEntry(metadata'[d])
          /\ CompletedReported(d)'
          /\ outcome'[d] = "completed"]_vars

C6_Witness ==
  \E d \in DATASETS :
    /\ outcome[d] = "completed"
    /\ CompletedReported(d)
    /\ WholeFile(d)
    /\ metaFile[d] = StringifyEntry(NewEntry(file[d].from, file[d].size))
    /\ d \in requested

\* the pass has ended with its final 'complete' event
Completed ==
  /\ pc = "closed"
  /\ Len(events) > 0
  /\ events[Len(events)].type = "complete"

(* C7: provided every request eventually yields a response, a connection     *)
(* error or a failure in the middle of the body, every pass that is started  *)
(* and not interrupted eventually ends with its final 'complete' event.      *)
C7_PassCompletes ==
  [](pc \notin {"idle", "closed"} => <>(pc = "idle" \/ Completed))

\* the number of datasets whose result in the pass is res
Outcomes(res) == Cardinality({d \in DATASETS : outcome[d] = res})

(* C8: when a pass reports its final tally, the three counters sum to the    *)
(* number of datasets and each equals the number of datasets with that       *)
(* result; with two datasets, the first with file and matching entry and the *)
(* second without file and with a fetch that succeeds, the first is skipped, *)
(* the second completed and the tally is 1 / 1 / 0.                          *)
C8_TallyMatchesOutcomes ==
  Completed =>
    LET last == events[Len(events)]
    IN /\ last.completed + last.skipped + last.failed = NumDatasets
       /\ last.completed = Outcomes("completed")
       /\ last.skipped = Outcomes("skipped")
       /\ last.failed = Outcomes("failed")
       /\ \A d \in DATASETS : Cardinality(Idx(d, "dataset_complete")) = 1
       /\ \A d \in DATASETS :
            \A i \in Idx(d, "dataset_complete") : events[i].status = outcome[d]
       /\ (NumDatasets = 2 /\ check[1] = "same" /\ check[2] = "none"
             /\ outcome[2] # "failed")
            => /\ outcome[1] = "skipped"
               /\ outcome[2] = "completed"
               /\ last.completed = 1 /\ last.skipped = 1 /\ last.failed = 0

C8_Witness ==
  /\ Completed
  /\ NumDatasets >= 2
  /\ check[1] = "same" /\ outcome[1] = "skipped"
  /\ check[2] = "none" /\ outcome[2] = "completed"
  /\ events[Len(events)].skipped = 1
  /\ events[Len(events)].completed = 1

(* C9: for every dataset, its dataset_start precedes all its progress        *)
(* events, these precede its dataset_complete, nothing about the dataset     *)
(* follows its dataset_complete, and when the pass has ended exactly one     *)
(* dataset_complete has been emitted for it.                                 *)
C9_EventOrder ==
  \A d \in DATASETS :
    /\ \A i \in Idx(d, "progress") : \E j \in Idx(d, "dataset_start") : j < i
    /\ \A i \in Idx(d, "progress") : \A j \in Idx(d, "dataset_complete") : i < j
    /\ \A i \in Idx(d, "dataset_start") : \A j \in Idx(d, "dataset_complete") : i < j
    /\ Cardinality(Idx(d, "dataset_complete")) <= 1
    /\ (pc = "closed" /\ Len(events) > 0)
         => Cardinality(Idx(d, "dataset_complete")) = 1

(* C10: 'complete' is emitted at most once and nothing follows it, and every *)
(* pass that has ended, whether or not datasets failed, has emitted it as    *)
(* its last event.                                                           *)
C10_CompleteIsLast ==
  /\ Cardinality(CompleteIdx) <= 1
  /\ \A i \in CompleteIdx : i = Len(events)
  /\ (pc = "closed" /\ Len(events) > 0) => CompleteIdx = {Len(events)}

\* positions of the results about dataset d
ResultIdx(d) == {i \in 1..Len(results) : results[i].dataset = d}

(* C11: at every moment of downloadInParallel the number of downloads that   *)
(* have been started and have not settled is at most maxParallel.            *)
C11_PoolBound ==
  Cardinality({d \in PAR : Running(pstate[d])}) <= MaxParallel

(* C12: when downloadInParallel has returned, its result list holds exactly  *)
(* one entry for each input dataset, with that dataset's own outcome, so the *)
(* success and failure counts are those of the downloads.                    *)
C12_OneResultEach ==
  ppc = "returned" =>
    /\ \A d \in PAR :
         /\ Cardinality(ResultIdx(d)) = 1
         /\ \A i \in ResultIdx(d) : results[i].success = (pstate[d] = "resolved")
    /\ Cardinality({i \in 1..Len(results) : results[i].success})
         = Cardinality({d \in PAR : pstate[d] = "resolved"})
    /\ Cardinality({i \in 1..Len(results) : ~results[i].success})
         = Cardinality({d \in PAR : pstate[d] = "rejected"})

(* C13: whatever happens to the downloads of the other datasets, every       *)
(* dataset given to downloadInParallel is eventually started.                *)
C13_EveryDatasetStarted ==
  \A d \in PAR : <>(pstate[d] # "queued")

Fetches(d) == IF d \in requested THEN 1 ELSE 0

(* C15: in a synchronization pass, a dataset whose fetch is hit by a         *)
(* connection error (on the redirected request or while the body streams)    *)
(* is reported failed only after it was fetched again at least once, and the *)
(* pass goes on with the next dataset or its final 'complete'.               *)
C15_NetworkFailureIsRetried ==
  [][\A d \in DATASETS :
       (pc \in {"redirecting", "streaming"} /\ cur = d
          /\ outcome'[d] = "failed" /\ file'[d].exists)
       => /\ Fetches(d)' >= 2
          /\ (cur' = d + 1 \/ Completed')]_vars

(* C17: when the response reached after the redirect has a status other than *)
(* 200, its body is not stored as the dataset file and the dataset is not    *)
(* completed: a completed dataset's file is the body of a 200 response.      *)
C17_RedirectTargetMustBe200 ==
  \A d \in DATASETS :
    /\ file[d].exists => file[d].content # "errorPage"
    /\ outcome[d] = "completed" => WholeFile(d)

(* C18: when the probe of an existing file fails with a network error, or    *)
(* its response lacks Last-Modified or ETag, the dataset is not skipped: the *)
(* fetch is started, and neither the dataset nor the pass has failed by it.  *)
C18_ProbeFailureFallsThrough ==
  [][(/\ pc \in {"probing", "probingRedirect"}
      /\ pc' \notin {"probing", "probingRedirect", "idle"}
      /\ \/ check'[cur] = "failed"
         \/ remote[cur].lastModified = Undef
         \/ remote[cur].etag = Undef)
     => /\ outcome'[cur] = "none"
        /\ cur \in requested'
        /\ pc' = "requesting"
        /\ cur' = cur]_vars

(* C19: a dataset that has no local file when its turn comes is fetched      *)
(* without a probe, whatever the stored entry says.                          *)
C19_NoFileIsFetched ==
  [][\A d \in DATASETS :
       (cur' = d /\ cur # d /\ ~file[d].exists)
       => /\ pc' = "requesting"
          /\ d \in requested'
          /\ check'[d] = "none"
          /\ file'[d].exists /\ file'[d].size = 0]_vars

C19_Witness ==
  \E d \in DATASETS :
    /\ cur = d
    /\ pc = "requesting"
    /\ check[d] = "none"
    /\ d \in requested
    /\ metadata[d] # NoEntry
    /\ Field(metadata[d], "lastModified") = remote[d].lastModified
    /\ Field(metadata[d], "etag") = remote[d].etag

\* C20: createUnifiedView never returns normally without having defined
\* view_unified, as it does when the main dataset is not available, and
\* POST /init-unified answers that the unified view was created only when
\* the call it made has (re)defined view_unified.
C20_UnavailablePrimaryFails ==
  \A r \in REQS :
    /\ call[r] # "returned"
    /\ response[r] = "created" => redefined[r]

\* C21: a pivot request that fails validation (empty dimension set) is
\* answered as a bad request without any statement run on view_unified, and
\* no query endpoint runs its statement on view_unified while the file of
\* the main dataset is not in the data directory.
C21_UnavailablePrimaryRejects ==
  [][\A r \in REQS :
       /\ response'[r] = "bad_request" => ~queried'[r]
       /\ (queried'[r] /\ ~queried[r]) => mainDataset \in csv]_vars

\* C22: at most one call of createUnifiedView is under way at any time.
C22_OneBuildAtATime == Cardinality(Building) <= 1

\* the datasets whose file is among files, in the order of DATASET_FILES
Present(files) == SelectSeq(DATASET_FILES, LAMBDA d : d \in files)

ScenarioBody ==
  [rows |-> <<"merk">>, columns |-> <<>>,
   values |-> << [column |-> Undef, field |-> "kenteken",
                  aggregation |-> "COUNT_DISTINCT"] >>,
   filters |-> << Rule("merk", "equals", Tesla, <<>>) >>]

\* C24: the request of the scenario, on the five rows of the fixture without
\* fan-out and an engine that does not run out of memory, is answered with
\* exactly one row, merk TESLA and value_0 3.
C24_ScenarioGivesOneTeslaRow ==
  ( /\ qpc = "answered"
    /\ body = ScenarioBody
    /\ \A k \in PLATES : subRecords[k] = 0
    /\ engineErr # "Out of Memory Error" )
  => /\ answer.status = "200"
     /\ answer.data = { [dims |-> <<Tesla>>, values |-> <<3>>] }

\* the pattern a string rule compares with: the value as sent, between the
\* wildcards of its operator
PatternOf(operator, v) ==
  CASE operator = "contains" -> <<"%">> \o v \o <<"%">>
    [] operator = "starts_with" -> v \o <<"%">>
    [] operator = "ends_with" -> <<"%">> \o v
    [] OTHER -> v

StringRule(f) ==
  /\ f.field # "" /\ f.value # <<>>
  /\ f.operator \in StringOps \cup {""}

\* C25: for every rule with operator equals, not_equals, contains,
\* starts_with or ends_with in a compiled request, whatever quotes its value
\* holds, the statement has a condition on the rule's column whose literal is
\* one whole string literal that reads back as the value sent, and every
\* literal of the statement is one whole literal.
C25_ValueIsOneLiteral ==
  qpc \in {"running", "answered"} /\ sql # NoQuery
  => /\ \A i \in 1..Len(body.filters) :
          StringRule(body.filters[i])
          => \E j \in 1..Len(sql.where) :
               /\ sql.where[j].column = body.filters[i].field
               /\ WellFormed(sql.where[j].text)
               /\ ReadLiteral(sql.where[j].text).value
                    = PatternOf(body.filters[i].operator, body.filters[i].value)
     /\ \A j \in 1..Len(sql.where) :
          sql.where[j].op \in {"=", "!=", "LIKE"} => WellFormed(sql.where[j].text)

C25_Witness ==
  /\ qpc = "answered"
  /\ answer.status = "200"
  /\ Len(body.filters) = 1
  /\ body.filters[1] = Rule("merk", "contains", <<"'", "T">>, <<>>)
  /\ ReadLiteral(sql.where[1].text).value = <<"%", "'", "T", "%">>

\* a rule that is inert: no field, no value, or between without value2
Inert(f) ==
  \/ f.field = ""
  \/ f.value = <<>>
  \/ f.operator = "between" /\ f.value2 = <<>>

Active(filters) == SelectSeq(filters, LAMBDA f : ~Inert(f))

\* C26: the WHERE clause of a compiled request is the one of the request
\* without its inert rules (no field, no value, between without value2), and
\* so are the rows of the answer.
C26_InertRuleAddsNothing ==
  qpc \in {"running", "answered"} /\ sql # NoQuery
  => /\ sql.where = WhereClause(body.rows, body.columns, Active(body.filters))
     /\ sql = Compile([body EXCEPT !.filters = Active(body.filters)])

C26_Witness ==
  /\ qpc = "answered"
  /\ answer.status = "200"
  /\ Len(body.filters) = 2
  /\ ~Inert(body.filters[1])
  /\ Inert(body.filters[2])
  /\ Len(sql.where) = 1 + Len(body.rows) + Len(body.columns)

\* the license plates of the main dataset that have a row of view_unified in
\* the group with dimension values key among the rows satisfying the
\* conditions
PlatesIn(q, relation, key) ==
  { k \in PLATES :
      \E i \in 1..Len(relation) :
        /\ relation[i].kenteken = k
        /\ \A j \in 1..Len(q.where) : Holds(q.where[j], relation[i])
        /\ key = [d \in 1..Len(q.dims) |-> relation[i][q.dims[d]]] }

\* C27: in every answer to a request that asks COUNT_DISTINCT of kenteken,
\* whatever rows the join has multiplied, the value of each group is the
\* number of license plates in the group.
C27_DistinctCountIgnoresFanOut ==
  ( /\ qpc = "answered"
    /\ answer.status = "200"
    /\ Len(body.values) = 1
    /\ body.values[1].column = "kenteken"
    /\ body.values[1].aggregation = "COUNT_DISTINCT" )
  => \A row \in answer.data :
       row.values[1]
         = Cardinality(PlatesIn(sql, LeftJoin(MainRows, subRecords), row.dims))

C27_Witness ==
  /\ qpc = "answered"
  /\ answer.status = "200"
  /\ Len(body.values) = 1
  /\ body.values[1].column = "kenteken"
  /\ body.values[1].aggregation = "COUNT_DISTINCT"
  /\ body.rows = <<"merk">> /\ body.columns = <<>> /\ body.filters = <<>>
  /\ subRecords[<<"K", "1">>] = 3
  /\ Len(LeftJoin(MainRows, subRecords)) > Len(MainRows)
  /\ [dims |-> <<Tesla>>, values |-> <<3>>] \in answer.data

\* C28: a request with a dimension and no values is not rejected and is
\* compiled with the single aggregate COUNT(DISTINCT kenteken), value_0.
C28_NoValuesCountsPlates ==
  ( /\ qpc \in {"running", "answered"}
    /\ body.values = <<>>
    /\ Len(body.rows) + Len(body.columns) > 0 )
  => /\ sql.aggs = << [func |-> "COUNT_DISTINCT", column |-> "kenteken"] >>
     /\ answer.status # "400"
     /\ (qpc = "answered" /\ engineErr = "") => answer.status = "200"

C28_Witness ==
  /\ qpc = "answered"
  /\ body.values = <<>>
  /\ body.rows = <<"merk">>
  /\ answer.status = "200"
  /\ \A row \in answer.data : Len(row.values) = 1

\* C29: when the engine fails on the statement of a pivot request, the
\* request is answered, with status 500 and the engine's message, and never
\* with a success or with rows.
C29_EngineErrorIsAnswered ==
  [][(qpc = "running" /\ engineErr' # "")
       => /\ qpc' = "answered"
          /\ answer'.status = "500"
          /\ answer'.error = engineErr'
          /\ answer'.data = {}]_vars

C29_Witness ==
  /\ qpc = "answered"
  /\ engineErr = "Binder Error"
  /\ answer.status = "500"
  /\ answer.error = "Binder Error"

\* C30: when the script is run again, every dataset whose download failed in
\* the run before (rejected after a status other than 200, 301, 302, or after
\* errors up to the last attempt) is among the datasets given to
\* downloadInParallel: it is started or waits in the queue.
C30_FailedIsDownloadedAgain ==
  [][reruns' > reruns
       => \A d \in PAR :
            pstate[d] = "rejected"
              => \/ pstate'[d] = "requesting"
                 \/ \E i \in 1..Len(pqueue') : pqueue'[i] = d]_vars

\* C33: when downloadInParallel has returned, no download it started is
\* still under way: every started download has settled.
C33_ReturnsAfterAllSettled ==
  ppc = "returned" => \A d \in PAR : ~Running(pstate[d])

\* C34: a step in which downloadDataset returns skipped or failed leaves the
\* metadata file as it is, for that dataset and for every other one; the
\* file changes only when a download completes or the bootstrap script
\* writes it, so a call that ends skipped or failed has changed nothing.
C34_SkippedOrFailedKeepsStore ==
  [][/\ \A d \in DATASETS :
          (outcome[d] = "none" /\ outcome'[d] \in {"skipped", "failed"})
            => metaFile' = metaFile
     /\ metaFile' # metaFile
          => \/ bootstraps' # bootstraps
             \/ \E d \in DATASETS :
                  outcome[d] = "none" /\ outcome'[d] = "completed"]_vars

C34_Witness ==
  \E d, e \in DATASETS :
    /\ outcome[d] = "failed"
    /\ outcome[e] = "skipped"
    /\ metaFile[d] # NoEntry
    /\ metaFile[e] # NoEntry

\* C35: every POST /pivot-advanced request is answered: none is left without
\* a response, whatever its body holds.
C35_EveryRequestAnswered == qpc # "unanswered"

\* C36: a lookup that the engine did not fail on for a reason of its own is
\* answered with one row whose kenteken equals the identifier without regard
\* to case, or with not-found: the identifier is only a value.
C36_IdentifierIsOnlyAValue ==
  (qpc = "answered" /\ request.kind = "lookup"
     /\ engineErr # "Out of Memory Error")
    => \/ answer.status = "404"
       \/ /\ answer.status = "200"
          /\ Cardinality(answer.data) = 1
          /\ \A row \in answer.data :
               Upper(row.kenteken) = Upper(request.param)

\* the text is a whole number: an optional sign and digits only
Numeral(p) ==
  /\ p # Absent
  /\ LET ds == IF p # <<>> /\ p[1] = "-" THEN Tail(p) ELSE p
     IN  ds # <<>> /\ \A i \in 1..Len(ds) : IsDecimal(ds[i])

\* C37: the statement of the per-dataset query has LIMIT 1000 when $limit is
\* absent, no LIMIT when $limit is empty, and LIMIT n when $limit is the
\* number n.
C37_LimitAsDocumented ==
  request.kind = "resource"
    => /\ request.param = Absent => limitClause = <<DefaultLimit>>
       /\ request.param = <<>> => limitClause = <<>>
       /\ Numeral(request.param)
            => limitClause = <<ParseInt(request.param).n>>

\* C31: at any moment at most one running download has a write stream open
\* on the canonical path of a dataset, also with two passes running.
C31_OneWriterPerDataset ==
  \A d \in DATASETS : Cardinality(writers[d]) <= 1

\* C32: an entry that is in the metadata file is in it after every later
\* write of the file, whichever pass writes.
C32_EntryNeverLost ==
  [][\A d \in DATASETS : tstore[d] # NoEntry => tstore'[d] # NoEntry]_vars

====
